---- MODULE Spec2Model ----
(***************************************************************************)
(* A model of src/app.py: a Flask service with two in-memory collections,  *)
(* users and tasks, and one handler per route.  Each handler is one atomic *)
(* action under Spec (requests handled one after another); SpecThreaded    *)
(* splits create_task at the point where the threaded server may switch    *)
(* between the computation of the new id and the append.                   *)
(*                                                                         *)
(* Python strings that the code converts (title, description) are          *)
(* sequences of one-character strings, so that str() and strip() are       *)
(* computed.  JSON values of a task body are tagged records (JNull, JBool, *)
(* JInt, JStr), because the code tests their type and truth value.         *)
(***************************************************************************)
EXTENDS Integers, Sequences, FiniteSets, TLC

VARIABLES users, tasks, req, resp, handled, assigned, written, threads

vars == <<users, tasks, req, resp, handled, assigned, written, threads>>

\* The number of requests one behaviour handles.
MaxRequests == 3

\* ------------------------------------------------------------------------
\* JSON values and the Python conversions the handlers apply to them
\* ------------------------------------------------------------------------

JNull == [k |-> "null", n |-> 0, b |-> FALSE, s |-> <<>>]

JBool(x) == [k |-> "bool", n |-> 0, b |-> x, s |-> <<>>]

JInt(x) == [k |-> "int", n |-> x, b |-> FALSE, s |-> <<>>]

JStr(x) == [k |-> "str", n |-> 0, b |-> FALSE, s |-> x]

\* isinstance(v, int): bool is a subclass of int in Python.
isinstance_int(v) == v.k \in {"int", "bool"}

\* The number a value compares as under Python's == (True == 1, False == 0).
PyNum(v) == IF v.k = "bool" THEN (IF v.b THEN 1 ELSE 0) ELSE v.n

Digits == <<"0", "1", "2", "3", "4", "5", "6", "7", "8", "9">>

RECURSIVE NatStr(_)
NatStr(x) ==
    IF x < 10 THEN <<Digits[x + 1]>>
    ELSE NatStr(x \div 10) \o <<Digits[(x % 10) + 1]>>

\* str(v)
str(v) ==
    CASE v.k = "str" -> v.s
      [] v.k = "null" -> <<"N", "o", "n", "e">>
      [] v.k = "bool" -> IF v.b THEN <<"T", "r", "u", "e">>
                                ELSE <<"F", "a", "l", "s", "e">>
      [] v.k = "int" -> IF v.n < 0 THEN <<"-">> \o NatStr(0 - v.n) ELSE NatStr(v.n)

\* bool(v)
bool(v) ==
    CASE v.k = "str" -> v.s # <<>>
      [] v.k = "null" -> FALSE
      [] v.k = "bool" -> v.b
      [] v.k = "int" -> v.n # 0

Whitespace == {" ", "\t", "\n", "\r"}

RECURSIVE lstrip(_)
lstrip(s) ==
    IF s = <<>> THEN s
    ELSE IF Head(s) \in Whitespace THEN lstrip(Tail(s)) ELSE s

RECURSIVE rstrip(_)
rstrip(s) ==
    IF s = <<>> THEN s
    ELSE IF s[Len(s)] \in Whitespace THEN rstrip(SubSeq(s, 1, Len(s) - 1)) ELSE s

\* strip that removes leading whitespace only.
strip_left(s) == lstrip(s)

\* s.strip()
strip(s) == rstrip(lstrip(s))

\* A request body: parsed is FALSE when the body is missing or is not JSON;
\* obj is the JSON object, a function from the keys present to their values.
NoJson == [parsed |-> FALSE, obj |-> <<>>]

Json(o) == [parsed |-> TRUE, obj |-> o]

\* key in data
Has(data, key) == key \in DOMAIN data.obj

\* data.get(key) and data.get(key, default) on a task body
Get(data, key, default) == IF Has(data, key) THEN data.obj[key] ELSE default

\* ------------------------------------------------------------------------
\* The seed data
\* ------------------------------------------------------------------------

SeedUsers ==
    << [id |-> 1, name |-> "Alice", age |-> 25],
       [id |-> 2, name |-> "Bob", age |-> 30] >>

SeedTasks ==
    << [id |-> 1,
        title |-> <<"L", "e", "a", "r", "n", " ", "R", "E", "S", "T">>,
        description |-> <<"S", "t", "u", "d", "y">>,
        user_id |-> JInt(1), completed |-> TRUE],
       [id |-> 2,
        title |-> <<"B", "u", "i", "l", "d", " ", "A", "P", "I">>,
        description |-> <<"C", "o", "m", "p", "l", "e", "t", "e">>,
        user_id |-> JInt(2), completed |-> FALSE] >>

\* ------------------------------------------------------------------------
\* Helper functions
\* ------------------------------------------------------------------------

\* any(u["id"] == user_id for u in users)
user_exists(us, user_id) == \E i \in DOMAIN us : us[i].id = PyNum(user_id)

\* The index of the first task with this id, 0 for None.
RECURSIVE find_from(_, _, _)
find_from(ts, task_id, i) ==
    IF i > Len(ts) THEN 0
    ELSE IF ts[i].id = task_id THEN i ELSE find_from(ts, task_id, i + 1)

find_task(ts, task_id) == find_from(ts, task_id, 1)

RECURSIVE max_id(_, _)
max_id(ts, default) ==
    IF ts = <<>> THEN default
    ELSE LET m == max_id(Tail(ts), default)
         IN IF Tail(ts) = <<>> \/ Head(ts).id > m THEN Head(ts).id ELSE m

\* get_next_task_id counting the tasks instead of taking the largest id.
get_next_task_id_count(ts) == Len(ts) + 1

get_next_task_id(ts) == max_id(ts, 0) + 1

\* [x for x in xs if x.id != id]
RECURSIVE without_id(_, _)
without_id(xs, id) ==
    IF xs = <<>> THEN <<>>
    ELSE IF Head(xs).id # id THEN <<Head(xs)>> \o without_id(Tail(xs), id)
         ELSE without_id(Tail(xs), id)

\* [t for t in tasks if t["user_id"] == user_id]
RECURSIVE tasks_of(_, _)
tasks_of(ts, user_id) ==
    IF ts = <<>> THEN <<>>
    ELSE IF PyNum(Head(ts).user_id) = user_id
         THEN <<Head(ts)>> \o tasks_of(Tail(ts), user_id)
         ELSE tasks_of(Tail(ts), user_id)

\* xs with the element at index i removed (list.remove of the found element)
remove_at(xs, i) == SubSeq(xs, 1, i - 1) \o SubSeq(xs, i + 1, Len(xs))

\* ------------------------------------------------------------------------
\* Responses
\* ------------------------------------------------------------------------

Text(status, text) == [status |-> status, kind |-> "text", text |-> text, items |-> <<>>]

Error(status, msg) == [status |-> status, kind |-> "error", text |-> msg, items |-> <<>>]

\* abort(status): an error page, no JSON body
Abort(status) == [status |-> status, kind |-> "abort", text |-> "", items |-> <<>>]

Object(status, o) == [status |-> status, kind |-> "object", text |-> "", items |-> <<o>>]

Array(status, xs) == [status |-> status, kind |-> "array", text |-> "", items |-> xs]

Empty(status) == [status |-> status, kind |-> "empty", text |-> "", items |-> <<>>]

Request(op, id, data) == [op |-> op, id |-> id, data |-> data]

\* ------------------------------------------------------------------------
\* The requests the model sends
\* ------------------------------------------------------------------------

\* The ids requests name in their paths: the seed ids and the next one.
PathIds == {1, 2, 3}

UserBodies ==
    { NoJson,
      Json(<<>>),
      Json([f \in {"age"} |-> 7]),
      Json([f \in {"name"} |-> "Zed"]) }

TaskBodies ==
    { NoJson,
      Json(<<>>),
      Json([title |-> JStr(<<" ", "a", " ">>), user_id |-> JInt(1)]),
      Json([title |-> JStr(<<" ", "\t">>), user_id |-> JInt(1)]),
      Json([title |-> JStr(<<"b">>), user_id |-> JInt(3)]),
      Json([title |-> JStr(<<"a">>), user_id |-> JStr(<<"1">>)]),
      Json([title |-> JNull, description |-> JStr(<<"d">>)]),
      Json([title |-> JInt(10), user_id |-> JBool(TRUE), completed |-> JInt(0)]),
      Json([f \in {"user_id"} |-> JInt(2)]),
      Json([f \in {"completed"} |-> JBool(TRUE)]) }

\* ------------------------------------------------------------------------
\* USERS RESOURCE: what each handler returns and leaves in the collection
\* ------------------------------------------------------------------------

\* next((user for user in users if user['id'] == user_id), None): index or 0
RECURSIVE find_user_from(_, _, _)
find_user_from(us, user_id, i) ==
    IF i > Len(us) THEN 0
    ELSE IF us[i].id = user_id THEN i ELSE find_user_from(us, user_id, i + 1)

find_user(us, user_id) == find_user_from(us, user_id, 1)

\* not request.json: no JSON body, or an empty object
no_json(data) == ~data.parsed \/ DOMAIN data.obj = {}

\* The next user id as the number of users plus one.
next_user_id_count(us) == Len(us) + 1

\* users[-1]['id'] + 1 if users else 1
next_user_id(us) == IF us # <<>> THEN us[Len(us)].id + 1 ELSE 1

GetUser(us, user_id) ==
    LET i == find_user(us, user_id)
    IN IF i = 0 THEN Abort(404) ELSE Object(200, us[i])

CreateUser(us, data) ==
    IF no_json(data) \/ ~Has(data, "name")
    THEN [resp |-> Abort(400), users |-> us]
    ELSE LET new_user == [id |-> next_user_id(us),
                          name |-> data.obj["name"],
                          age |-> Get(data, "age", 0)]
         IN [resp |-> Object(201, new_user), users |-> Append(us, new_user)]

UpdateUser(us, user_id, data) ==
    LET i == find_user(us, user_id)
    IN IF i = 0 THEN [resp |-> Abort(404), users |-> us]
       ELSE IF no_json(data) THEN [resp |-> Abort(400), users |-> us]
       ELSE LET user == [us[i] EXCEPT !.name = Get(data, "name", us[i].name),
                                      !.age = Get(data, "age", us[i].age)]
            IN [resp |-> Object(200, user), users |-> [us EXCEPT ![i] = user]]

\* delete_user that also drops the tasks of the deleted user.
RECURSIVE not_of_user(_, _)
not_of_user(ts, user_id) ==
    IF ts = <<>> THEN <<>>
    ELSE IF PyNum(Head(ts).user_id) # user_id
         THEN <<Head(ts)>> \o not_of_user(Tail(ts), user_id)
         ELSE not_of_user(Tail(ts), user_id)

DeleteUser_cascade(us, ts, user_id) ==
    [resp |-> Empty(204), users |-> without_id(us, user_id),
     tasks |-> not_of_user(ts, user_id)]

\* delete_user that checks existence the way delete_task does.
DeleteUser_checked(us, ts, user_id) ==
    IF find_user(us, user_id) = 0
    THEN [resp |-> Abort(404), users |-> us, tasks |-> ts]
    ELSE [resp |-> Empty(204), users |-> without_id(us, user_id), tasks |-> ts]

\* delete_user rebinds users and does not touch tasks.
DeleteUser(us, ts, user_id) ==
    [resp |-> Empty(204), users |-> without_id(us, user_id), tasks |-> ts]

\* ------------------------------------------------------------------------
\* TASKS RESOURCE
\* ------------------------------------------------------------------------

GetTask(ts, task_id) ==
    LET i == find_task(ts, task_id)
    IN IF i = 0 THEN Error(404, "Task not found") ELSE Object(200, ts[i])

\* user_id_error without the user_exists check.
user_id_error_type_only(us, user_id) ==
    IF ~isinstance_int(user_id) THEN "user_id must be an integer" ELSE ""

\* The two checks of a user_id that is present (create_task and update_task
\* make the same two): the error message, "" when it passes.
user_id_error(us, user_id) ==
    IF ~isinstance_int(user_id) THEN "user_id must be an integer"
    ELSE IF ~user_exists(us, user_id) THEN "Invalid user_id (user doesn't exist)"
    ELSE ""

\* create_task up to the construction of new_task: the validation of the
\* body, then the record with the id get_next_task_id() gives.
BuildTask(us, ts, data) ==
    IF ~data.parsed
    THEN [ok |-> FALSE, resp |-> Error(400, "Invalid JSON in request body")]
    ELSE LET title == Get(data, "title", JNull)
             user_id == Get(data, "user_id", JNull)
         IN IF title = JNull \/ strip(str(title)) = <<>>
            THEN [ok |-> FALSE, resp |-> Error(400, "Missing required field: title")]
            ELSE IF user_id = JNull
            THEN [ok |-> FALSE, resp |-> Error(400, "Missing required field: user_id")]
            ELSE IF user_id_error(us, user_id) # ""
            THEN [ok |-> FALSE, resp |-> Error(400, user_id_error(us, user_id))]
            ELSE [ok |-> TRUE,
                  resp |-> Object(201,
                      [id |-> get_next_task_id(ts),
                       title |-> strip(str(title)),
                       description |-> str(Get(data, "description", JStr(<<>>))),
                       user_id |-> user_id,
                       completed |-> bool(Get(data, "completed", JBool(FALSE)))])]

CreateTask(us, ts, data) ==
    LET built == BuildTask(us, ts, data)
    IN [resp |-> built.resp,
        tasks |-> IF built.ok THEN Append(ts, built.resp.items[1]) ELSE ts]

\* The four "update fields only if provided" blocks of update_task, each the
\* task after the block (the checks that return 400 are in UpdateTask).
put_title(task, data) ==
    IF Has(data, "title")
    THEN [task EXCEPT !.title = strip(str(data.obj["title"]))]
    ELSE task

put_description(task, data) ==
    IF Has(data, "description")
    THEN [task EXCEPT !.description = str(data.obj["description"])]
    ELSE task

put_user_id(task, data) ==
    IF Has(data, "user_id")
    THEN [task EXCEPT !.user_id = data.obj["user_id"]]
    ELSE task

\* completed replaced by its default when the body does not carry it.
put_completed_default(task, data) ==
    [task EXCEPT !.completed = bool(Get(data, "completed", JBool(FALSE)))]

put_completed(task, data) ==
    IF Has(data, "completed")
    THEN [task EXCEPT !.completed = bool(data.obj["completed"])]
    ELSE task

\* update_task writes each field into the stored task as it goes, so a
\* return 400 at user_id comes after the writes of title and description.
UpdateTask(us, ts, task_id, data) ==
    LET i == find_task(ts, task_id)
    IN IF i = 0 THEN [resp |-> Error(404, "Task not found"), tasks |-> ts]
       ELSE IF ~data.parsed
       THEN [resp |-> Error(400, "Invalid JSON in request body"), tasks |-> ts]
       ELSE IF Has(data, "title") /\ strip(str(data.obj["title"])) = <<>>
       THEN [resp |-> Error(400, "title cannot be empty"), tasks |-> ts]
       ELSE
         LET t2 == put_description(put_title(ts[i], data), data)
         IN IF Has(data, "user_id") /\ user_id_error(us, data.obj["user_id"]) # ""
            THEN [resp |-> Error(400, user_id_error(us, data.obj["user_id"])),
                  tasks |-> [ts EXCEPT ![i] = t2]]
            ELSE
              LET t4 == put_completed(put_user_id(t2, data), data)
              IN [resp |-> Object(200, t4), tasks |-> [ts EXCEPT ![i] = t4]]

DeleteTask(ts, task_id) ==
    LET i == find_task(ts, task_id)
    IN IF i = 0 THEN [resp |-> Error(404, "Task not found"), tasks |-> ts]
       ELSE [resp |-> Empty(204), tasks |-> remove_at(ts, i)]

\* get_tasks_for_user answering 404 when the user has no task.
GetTasksForUser_by_tasks(us, ts, user_id) ==
    IF tasks_of(ts, user_id) = <<>> THEN Error(404, "User not found")
    ELSE Array(200, tasks_of(ts, user_id))

\* USER-TASKS ENDPOINT
GetTasksForUser(us, ts, user_id) ==
    IF ~user_exists(us, JInt(user_id)) THEN Error(404, "User not found")
    ELSE Array(200, tasks_of(ts, user_id))

\* ------------------------------------------------------------------------
\* The state
\* ------------------------------------------------------------------------
\* users, tasks: the two module-level lists.
\* req, resp:    the request handled last and its response.
\* handled:      the number of requests handled so far.
\* assigned:     history: every id a task was ever given.
\* written:      history, one entry per task of tasks, in the same order:
\*               at_write: user_exists(user_id) when the task was created or,
\*                         later, when update_task last returned 200 for it;
\*               at_set:   user_exists(user_id) when user_id was last stored.
\* threads:      per server thread, where it is in create_task and the
\*               new_task it has built (only SpecThreaded moves them).

Threads == {1, 2}

Idle == [pc |-> "idle", new_task |-> <<>>]

NoRequest == Request("none", 0, NoJson)

Written(us, user_id) ==
    [at_write |-> user_exists(us, user_id), at_set |-> user_exists(us, user_id)]

Init ==
    /\ users = SeedUsers
    /\ tasks = SeedTasks
    /\ req = NoRequest
    /\ resp = Empty(0)
    /\ handled = 0
    /\ assigned = {SeedTasks[i].id : i \in DOMAIN SeedTasks}
    /\ written = [i \in DOMAIN SeedTasks |-> Written(SeedUsers, SeedTasks[i].user_id)]
    /\ threads = [p \in Threads |-> Idle]

\* A request is received and answered.
Handle(op, id, data, response) ==
    /\ handled < MaxRequests
    /\ handled' = handled + 1
    /\ req' = Request(op, id, data)
    /\ resp' = response

\* ------------------------------------------------------------------------
\* One action per route
\* ------------------------------------------------------------------------

index ==
    /\ Handle("index", 0, NoJson,
              Text(200, "Welcome to Flask REST API Demo! Try accessing /users to see all users."))
    /\ UNCHANGED <<users, tasks, assigned, written, threads>>

health_check ==
    /\ Handle("health_check", 0, NoJson, Object(200, [status |-> "healthy"]))
    /\ UNCHANGED <<users, tasks, assigned, written, threads>>

get_users ==
    /\ Handle("get_users", 0, NoJson, Array(200, users))
    /\ UNCHANGED <<users, tasks, assigned, written, threads>>

get_user ==
    \E user_id \in PathIds :
        /\ Handle("get_user", user_id, NoJson, GetUser(users, user_id))
        /\ UNCHANGED <<users, tasks, assigned, written, threads>>

create_user ==
    \E data \in UserBodies :
        LET r == CreateUser(users, data)
        IN /\ Handle("create_user", 0, data, r.resp)
           /\ users' = r.users
           /\ UNCHANGED <<tasks, assigned, written, threads>>

update_user ==
    \E user_id \in PathIds, data \in UserBodies :
        LET r == UpdateUser(users, user_id, data)
        IN /\ Handle("update_user", user_id, data, r.resp)
           /\ users' = r.users
           /\ UNCHANGED <<tasks, assigned, written, threads>>

delete_user ==
    \E user_id \in PathIds :
        LET r == DeleteUser(users, tasks, user_id)
        IN /\ Handle("delete_user", user_id, NoJson, r.resp)
           /\ users' = r.users
           /\ tasks' = r.tasks
           /\ UNCHANGED <<assigned, written, threads>>

get_tasks ==
    /\ Handle("get_tasks", 0, NoJson, Array(200, tasks))
    /\ UNCHANGED <<users, tasks, assigned, written, threads>>

get_task ==
    \E task_id \in PathIds :
        /\ Handle("get_task", task_id, NoJson, GetTask(tasks, task_id))
        /\ UNCHANGED <<users, tasks, assigned, written, threads>>

create_task ==
    \E data \in TaskBodies :
        LET r == CreateTask(users, tasks, data)
        IN /\ Handle("create_task", 0, data, r.resp)
           /\ tasks' = r.tasks
           /\ IF r.resp.status = 201
              THEN /\ assigned' = assigned \cup {r.resp.items[1].id}
                   /\ written' = Append(written, Written(users, r.resp.items[1].user_id))
              ELSE UNCHANGED <<assigned, written>>
           /\ UNCHANGED <<users, threads>>

update_task ==
    \E task_id \in PathIds, data \in TaskBodies :
        LET r == UpdateTask(users, tasks, task_id, data)
            i == find_task(tasks, task_id)
        IN /\ Handle("update_task", task_id, data, r.resp)
           /\ tasks' = r.tasks
           /\ IF r.resp.status = 200
              THEN written' =
                     [written EXCEPT ![i] =
                        [at_write |-> user_exists(users, r.tasks[i].user_id),
                         at_set |-> IF Has(data, "user_id")
                                    THEN user_exists(users, r.tasks[i].user_id)
                                    ELSE written[i].at_set]]
              ELSE UNCHANGED written
           /\ UNCHANGED <<users, assigned, threads>>

delete_task ==
    \E task_id \in PathIds :
        LET r == DeleteTask(tasks, task_id)
            i == find_task(tasks, task_id)
        IN /\ Handle("delete_task", task_id, NoJson, r.resp)
           /\ tasks' = r.tasks
           /\ written' = IF i = 0 THEN written ELSE remove_at(written, i)
           /\ UNCHANGED <<users, assigned, threads>>

get_tasks_for_user ==
    \E user_id \in PathIds :
        /\ Handle("get_tasks_for_user", user_id, NoJson,
                  GetTasksForUser(users, tasks, user_id))
        /\ UNCHANGED <<users, tasks, assigned, written, threads>>

Next ==
    \/ index
    \/ health_check
    \/ get_users
    \/ get_user
    \/ create_user
    \/ update_user
    \/ delete_user
    \/ get_tasks
    \/ get_task
    \/ create_task
    \/ update_task
    \/ delete_task
    \/ get_tasks_for_user

Spec == Init /\ [][Next]_vars

\* ------------------------------------------------------------------------
\* The threaded server (app.run serves each request in its own thread):
\* create_task in two steps, with nothing that keeps another thread from
\* running between the construction of new_task and tasks.append.
\* ------------------------------------------------------------------------

create_task_build(p) ==
    \E data \in TaskBodies :
        LET built == BuildTask(users, tasks, data)
        IN /\ threads[p].pc = "idle"
           /\ handled < MaxRequests
           /\ handled' = handled + 1
           /\ req' = Request("create_task", 0, data)
           /\ IF built.ok
              THEN /\ threads' = [threads EXCEPT
                                    ![p] = [pc |-> "append", new_task |-> built.resp.items]]
                   /\ UNCHANGED resp
              ELSE /\ resp' = built.resp
                   /\ UNCHANGED threads
           /\ UNCHANGED <<users, tasks, assigned, written>>

create_task_append(p) ==
    LET new_task == threads[p].new_task[1]
    IN /\ threads[p].pc = "append"
       /\ tasks' = Append(tasks, new_task)
       /\ resp' = Object(201, new_task)
       /\ assigned' = assigned \cup {new_task.id}
       /\ written' = Append(written, Written(users, new_task.user_id))
       /\ threads' = [threads EXCEPT ![p] = Idle]
       /\ UNCHANGED <<users, req, handled>>

NextThreaded ==
    \/ \E p \in Threads : create_task_build(p)
    \/ \E p \in Threads : create_task_append(p)
    \/ delete_task

SpecThreaded == Init /\ [][NextThreaded]_vars

\* ------------------------------------------------------------------------
\* Properties
\* ------------------------------------------------------------------------
\* Every step of Next sets req and resp to the request it handled and the
\* response it gave, so an action formula reads the request from req' and
\* the response from resp', with the collections before and after the
\* handler in the unprimed and primed variables.

Created == req'.op = "create_task" /\ resp'.status = 201

Failed == resp'.status \in {400, 404}

UniqueIds(xs) == \A i, j \in DOMAIN xs : xs[i].id = xs[j].id => i = j

\* C1, as stated: a created task's id is strictly greater than every task
\* id assigned earlier, the ids of deleted tasks included, and no two tasks
\* in the collection share an id.
C1_AboveEveryAssignedId ==
    [][ /\ Created => \A a \in assigned : resp'.items[1].id > a
        /\ UniqueIds(tasks') ]_vars

\* C1, amended: a created task's id is strictly greater than the id of
\* every task in the collection when it is created (an id of a deleted task
\* may be given again), and no two tasks in the collection share an id.
C1_AbovePresentIds ==
    /\ []UniqueIds(tasks)
    /\ [][ Created =>
             /\ \A i \in DOMAIN tasks : resp'.items[1].id > tasks[i].id
             /\ tasks' = Append(tasks, resp'.items[1]) ]_vars

\* A task was created with the id of a seed task that had been deleted.
C1_Witness ==
    /\ req.op = "create_task"
    /\ resp.status = 201
    /\ resp.items[1].id \in {SeedTasks[i].id : i \in DOMAIN SeedTasks}
    /\ tasks[Len(tasks)] = resp.items[1]

\* C2: a request answered 400 or 404 leaves users and tasks as they were.
C2_FailureLeavesStore ==
    [][ Failed => users' = users /\ tasks' = tasks ]_vars

\* C3, as stated: every task's user_id referenced an existing user when the
\* task was created or when update_task last succeeded on it, whether or
\* not that update carried user_id.
C3_ReferencedAtLastWrite ==
    /\ Len(written) = Len(tasks)
    /\ \A i \in DOMAIN written : written[i].at_write

\* C3, amended: every task's user_id referenced an existing user at the
\* moment that user_id was stored: at the task's creation, or at the last
\* successful update_task whose body carried user_id.
C3_ReferencedWhenStored ==
    /\ Len(written) = Len(tasks)
    /\ \A i \in DOMAIN written : written[i].at_set

\* update_task succeeded, with a body that carries no user_id, on a task
\* whose user had been deleted after the task's user_id was stored.
C3_Witness ==
    /\ req.op = "update_task"
    /\ resp.status = 200
    /\ ~Has(req.data, "user_id")
    /\ \E i \in DOMAIN tasks :
          /\ tasks[i].id = req.id
          /\ ~user_exists(users, tasks[i].user_id)
          /\ written[i].at_set

\* The largest element of a non-empty set of integers.
MaxOf(S) == CHOOSE m \in S : \A x \in S : x <= m

UserIds(us) == {us[i].id : i \in DOMAIN us}

\* C4: no two users share an id, update_user never changes a user's id, and
\* a created user gets max(ids of the users in the collection) + 1, or 1
\* when the collection is empty.
C4_UserIds ==
    /\ []UniqueIds(users)
    /\ [][ /\ req'.op = "update_user" =>
                /\ Len(users') = Len(users)
                /\ \A i \in DOMAIN users : users'[i].id = users[i].id
           /\ (req'.op = "create_user" /\ resp'.status = 201) =>
                /\ resp'.items[1].id =
                     IF users = <<>> THEN 1 ELSE MaxOf(UserIds(users)) + 1
                /\ users' = Append(users, resp'.items[1]) ]_vars

\* A user was created after a user with a smaller id had been deleted.
C4_Witness ==
    /\ req.op = "create_user"
    /\ resp.status = 201
    /\ users[Len(users)] = resp.items[1]
    /\ resp.items[1].id > Len(users)

\* C5: delete_user leaves tasks unchanged; the tasks of the deleted user
\* keep their user_id and are still returned by get_tasks and get_task.
C5_DeleteUserKeepsTasks ==
    [][ req'.op = "delete_user" =>
          /\ tasks' = tasks
          /\ \A i \in DOMAIN tasks :
                PyNum(tasks[i].user_id) = req'.id =>
                   /\ i \in DOMAIN tasks'
                   /\ tasks'[i].user_id = tasks[i].user_id
                   /\ \E j \in DOMAIN Array(200, tasks').items :
                         Array(200, tasks').items[j] = tasks[i]
                   /\ GetTask(tasks', tasks[i].id) = Object(200, tasks[i]) ]_vars

\* A user that tasks refer to was deleted.
C5_Witness ==
    /\ req.op = "delete_user"
    /\ ~user_exists(users, JInt(req.id))
    /\ \E i \in DOMAIN tasks : PyNum(tasks[i].user_id) = req.id

TaskFields == {"title", "description", "user_id", "completed"}

\* C6: a successful update_task changes only the fields of the task that
\* its body carries; the other fields and the id of that task, every other
\* task and users are unchanged.
C6_UpdateTaskFrame ==
    [][ (req'.op = "update_task" /\ resp'.status = 200) =>
          /\ users' = users
          /\ Len(tasks') = Len(tasks)
          /\ \A i \in DOMAIN tasks :
                IF i = find_task(tasks, req'.id)
                THEN /\ tasks'[i].id = tasks[i].id
                     /\ \A f \in TaskFields :
                           ~Has(req'.data, f) => tasks'[i][f] = tasks[i][f]
                ELSE tasks'[i] = tasks[i] ]_vars

\* update_task with a body of completed alone turned the second seed task
\* to completed and left its other fields.
C6_Witness ==
    /\ req.op = "update_task"
    /\ resp.status = 200
    /\ DOMAIN req.data.obj = {"completed"}
    /\ req.id = 2
    /\ Len(tasks) = 2
    /\ tasks[2] = [SeedTasks[2] EXCEPT !.completed = TRUE]

\* The i-th (from 1) smallest element of a set of integers.
Nth(S, i) == CHOOSE x \in S : Cardinality({y \in S : y < x}) = i - 1

\* r is the answer C7 asks of get_tasks_for_user(user_id) in this state.
ListForUserOk(r, user_id) ==
    LET mine == {i \in DOMAIN tasks : PyNum(tasks[i].user_id) = user_id}
    IN IF \A i \in DOMAIN users : users[i].id # user_id
       THEN r.status = 404
       ELSE /\ r.status = 200
            /\ r.kind = "array"
            /\ Len(r.items) = Cardinality(mine)
            /\ \A j \in DOMAIN r.items : r.items[j] = tasks[Nth(mine, j)]

\* C7: get_tasks_for_user answers 404 exactly when no user has the id, even
\* if tasks with that user_id exist, and otherwise 200 with exactly the
\* tasks of that user_id in the order of tasks, the empty list included.
C7_ListForUser ==
    /\ \A user_id \in PathIds :
          ListForUserOk(GetTasksForUser(users, tasks, user_id), user_id)
    /\ req.op = "get_tasks_for_user" => ListForUserOk(resp, req.id)

\* get_tasks_for_user answered 404 for a deleted user whose tasks remain.
C7_Witness ==
    /\ req.op = "get_tasks_for_user"
    /\ resp.status = 404
    /\ \E i \in DOMAIN tasks : PyNum(tasks[i].user_id) = req.id

\* C8: delete_user answers 204 whether or not the user exists, and on an
\* absent id leaves users unchanged, so that a second delete_user(id)
\* answers 204 again and leaves the Store of the first; delete_task on an
\* absent id answers 404.
C8_DeleteUserIdempotent ==
    [][ /\ req'.op = "delete_user" =>
             /\ resp'.status = 204
             /\ (\A i \in DOMAIN users : users[i].id # req'.id) => users' = users
             /\ DeleteUser(users', tasks', req'.id) =
                   [resp |-> resp', users |-> users', tasks |-> tasks']
        /\ (req'.op = "delete_task" /\ \A i \in DOMAIN tasks : tasks[i].id # req'.id)
             => resp'.status = 404 /\ tasks' = tasks ]_vars

\* delete_user answered 204 for an id that no user had.
C8_Witness ==
    /\ handled = 1
    /\ req.op = "delete_user"
    /\ req.id \notin UserIds(SeedUsers)
    /\ resp.status = 204
    /\ users = SeedUsers

Trimmed(s) == s # <<>> /\ Head(s) \notin Whitespace /\ s[Len(s)] \notin Whitespace

Blank(s) == \A c \in DOMAIN s : s[c] \in Whitespace

\* t is s without the whitespace at its two ends.
IsTrimOf(t, s) ==
    /\ Trimmed(t)
    /\ \E a, b \in DOMAIN s :
          /\ t = SubSeq(s, a, b)
          /\ \A c \in DOMAIN s : (c < a \/ c > b) => s[c] \in Whitespace

\* C9: every stored title is a non-empty string without leading or
\* trailing whitespace; create_task answers 400 to a missing or
\* whitespace-only title and stores the trimmed title; update_task answers
\* 400 to a title that is empty after trimming and otherwise stores the
\* trimmed title.
C9_Titles ==
    /\ [](\A i \in DOMAIN tasks : Trimmed(tasks[i].title))
    /\ [][ /\ (req'.op = "create_task" /\ req'.data.parsed) =>
                LET title == Get(req'.data, "title", JNull)
                IN IF title = JNull \/ Blank(str(title))
                   THEN resp'.status = 400 /\ tasks' = tasks
                   ELSE resp'.status = 201 =>
                          IsTrimOf(tasks'[Len(tasks')].title, str(title))
           /\ (req'.op = "update_task" /\ req'.data.parsed
                 /\ Has(req'.data, "title") /\ find_task(tasks, req'.id) # 0) =>
                LET title == str(req'.data.obj["title"])
                    i == find_task(tasks, req'.id)
                IN IF Blank(title)
                   THEN resp'.status = 400 /\ tasks' = tasks
                   ELSE IsTrimOf(tasks'[i].title, title) ]_vars

\* A title given with whitespace around it is stored without it.
C9_Witness ==
    /\ req.op \in {"create_task", "update_task"}
    /\ Has(req.data, "title")
    /\ req.data.obj["title"] = JStr(<<" ", "a", " ">>)
    /\ \E i \in DOMAIN tasks : tasks[i].title = <<"a">>

\* C10: with two create_task requests in flight at once, tasks never holds
\* two tasks with the same id.
C10_UniqueIdsThreaded == UniqueIds(tasks)

====
